---- MODULE Spec2Model ----
(***************************************************************************)
(* Keyframe sampling and multi-clip blending of the glTF animation example *)
(* (examples/animation/gltf_skinned_mesh_using_animation_data.rs).         *)
(*                                                                         *)
(* f32 values are modelled as binary floating point numbers with           *)
(* MantBits bits of precision and a smallest quantum of 2^-FracBits,       *)
(* rounded to nearest, ties to even, after every operation, as IEEE 754    *)
(* does for f32 (24 bits of precision).  A float is held as an integer     *)
(* count of quanta.  Magnitudes stay far below the overflow threshold, so  *)
(* infinities do not arise.                                                *)
(***************************************************************************)
EXTENDS Integers, Sequences, FiniteSets, TLC

\* ------------------------------------------------------------- bounds
MantBits == 4
FracBits == 4
MaxKeys == 3

\* ------------------------------------------------------------- f32
One == 2 ^ FracBits
Half == One \div 2
Quarter == One \div 4

Abs(n) == IF n < 0 THEN -n ELSE n
Sgn(n) == IF n < 0 THEN -1 ELSE 1

RECURSIVE BitLen(_)
BitLen(n) == IF n = 0 THEN 0 ELSE 1 + BitLen(n \div 2)

\* The quotient a/d (a >= 0, d > 0) rounded to the nearest integer, ties
\* to even.
RoundDiv(a, d) ==
    LET m == a \div d
        r == a % d
    IN  m + (IF 2 * r > d THEN 1 ELSE IF 2 * r = d THEN m % 2 ELSE 0)

\* The bits a quotient q >= 0 has beyond the MantBits of a mantissa.
Shift(q) == IF q < 2 ^ MantBits THEN 0 ELSE BitLen(q) - MantBits

\* a/den rounded to a multiple of ulp, the quantum of its binade.
RoundTo(a, den, ulp) == RoundDiv(a, den * ulp) * ulp

\* Round the rational num/den (den > 0), in quanta, to the nearest float,
\* ties to the even mantissa.
FRound(num, den) ==
    Sgn(num) * RoundTo(Abs(num), den, 2 ^ Shift(Abs(num) \div den))

IsFloat(n) == FRound(n, 1) = n

FAdd(a, b) == FRound(a + b, 1)
FSub(a, b) == FRound(a - b, 1)
FMul(a, b) == FRound(a * b, One)
FDiv(a, b) == FRound(Sgn(b) * a * One, Abs(b))
\* Rust's % on f32 is fmod: truncated, exact, the sign of the dividend.
FRem(a, b) == Sgn(a) * (Abs(a) % Abs(b))

\* floor(sqrt(n)) for n >= 0.
RECURSIVE ISqrt(_)
ISqrt(n) ==
    IF n < 2 THEN n
    ELSE LET s == 2 * ISqrt(n \div 4)
         IN  IF (s + 1) * (s + 1) <= n THEN s + 1 ELSE s

\* Correctly rounded square root of a >= 0: the root of a*One quanta^2 is
\* located on the half-quantum grid, which holds every float and every
\* midpoint of two floats, and a sticky quarter marks an inexact root.
FSqrt(a) ==
    LET n == 4 * a * One
        s == ISqrt(n)
    IN  IF s * s = n THEN FRound(s, 2) ELSE FRound(2 * s + 1, 4)

\* ------------------------------------------------------------- Vec3, Quat
\* glam's Vec3 (x, y, z) and Quat (x, y, z, w) with componentwise f32
\* arithmetic.
Vec3_ZERO == <<0, 0, 0>>
Vec3_ONE == <<One, One, One>>
Quat_IDENTITY == <<0, 0, 0, One>>

Vec3Add(a, b) == <<FAdd(a[1], b[1]), FAdd(a[2], b[2]), FAdd(a[3], b[3])>>
Vec3Sub(a, b) == <<FSub(a[1], b[1]), FSub(a[2], b[2]), FSub(a[3], b[3])>>
Vec3MulS(a, s) == <<FMul(a[1], s), FMul(a[2], s), FMul(a[3], s)>>
Vec3DivS(a, s) == <<FDiv(a[1], s), FDiv(a[2], s), FDiv(a[3], s)>>

Vec4Add(a, b) == <<FAdd(a[1], b[1]), FAdd(a[2], b[2]), FAdd(a[3], b[3]), FAdd(a[4], b[4])>>
Vec4Sub(a, b) == <<FSub(a[1], b[1]), FSub(a[2], b[2]), FSub(a[3], b[3]), FSub(a[4], b[4])>>
Vec4MulS(a, s) == <<FMul(a[1], s), FMul(a[2], s), FMul(a[3], s), FMul(a[4], s)>>
Vec4DivS(a, s) == <<FDiv(a[1], s), FDiv(a[2], s), FDiv(a[3], s), FDiv(a[4], s)>>

\* Vec3::lerp(self, rhs, s) = self + ((rhs - self) * s)
Vec3_lerp(a, b, s) == Vec3Add(a, Vec3MulS(Vec3Sub(b, a), s))

Dot4(a, b) ==
    FAdd(FAdd(FAdd(FMul(a[1], b[1]), FMul(a[2], b[2])), FMul(a[3], b[3])),
         FMul(a[4], b[4]))

\* normalize: self / self.length()
Normalize4(q) ==
    LET length == FSqrt(Dot4(q, q))
    IN  Vec4DivS(q, length)

\* Quat::lerp(self, end, s): the end rotation is negated when its dot
\* product with the start is negative (shortest arc), the linear blend is
\* normalized.
Quat_lerp(start, end, s) ==
    LET dot == Dot4(start, end)
        bias == IF dot >= 0 THEN One ELSE -One
        interpolated == Vec4Add(start, Vec4MulS(Vec4Sub(Vec4MulS(end, bias), start), s))
    IN  Normalize4(interpolated)

\* Quat * Quat (Hamilton product).
Quat_mul(a, b) ==
    LET x0 == a[1] y0 == a[2] z0 == a[3] w0 == a[4]
        x1 == b[1] y1 == b[2] z1 == b[3] w1 == b[4]
    IN  << FSub(FAdd(FAdd(FMul(w0, x1), FMul(x0, w1)), FMul(y0, z1)), FMul(z0, y1)),
           FAdd(FAdd(FSub(FMul(w0, y1), FMul(x0, z1)), FMul(y0, w1)), FMul(z0, x1)),
           FAdd(FSub(FAdd(FMul(w0, z1), FMul(x0, y1)), FMul(y0, x1)), FMul(z0, w1)),
           FSub(FSub(FSub(FMul(w0, w1), FMul(x0, x1)), FMul(y0, y1)), FMul(z0, z1)) >>

\* ------------------------------------------------------------- sampler
Interpolations == {"Linear", "Step", "CubicSpline"}

SetMax(S) == CHOOSE m \in S : \A x \in S : x <= m
SetMin(S) == CHOOSE m \in S : \A x \in S : m <= x
Min(a, b) == IF a < b THEN a ELSE b

\* KeyframePair with rfind(t >= kt): a keyframe at the query time counts
\* as passed.
KeyframePair_ge(nvalues, times, t) ==
    LET below == {i \in 1..Len(times) : t >= times[i]}
    IN  IF below = {} THEN <<1, 1>>
        ELSE <<SetMax(below), Min(SetMax(below) + 1, nvalues)>>

\* The two keyframe indices to interpolate between (1-based here):
\* rfind(t > kt), then the next keyframe clamped to the last value, or
\* the first keyframe twice when no keyframe time is below t.
KeyframePair(nvalues, times, t) ==
    LET below == {i \in 1..Len(times) : t > times[i]}
    IN  IF below = {} THEN <<1, 1>>
        ELSE <<SetMax(below), Min(SetMax(below) + 1, nvalues)>>

\* The outcome of a call: a value, or the panic of todo!().
Returned(v) == [panic |-> FALSE, value |-> v]
Panicked == [panic |-> TRUE, value |-> <<>>]

\* Factor with the denominator t1 in place of t1 - t0.
Factor_abs(times, ti0, ti1, t) ==
    FDiv(FSub(t, times[ti0]), times[ti1])

\* The interpolation factor (t - t0) / (t1 - t0).
Factor(times, ti0, ti1, t) ==
    FDiv(FSub(t, times[ti0]), FSub(times[ti1], times[ti0]))

\* interpolate_vec3 that matches on the interpolation before it tests
\* ti0 == ti1: Step and CubicSpline reach todo!() at every query time.
interpolate_vec3_matchfirst(vec3s, times, t, interp) ==
    LET p == KeyframePair(Len(vec3s), times, t)
        ti0 == p[1]
        ti1 == p[2]
    IN  IF interp # "Linear" THEN Panicked
        ELSE IF ti0 = ti1 THEN Returned(vec3s[ti0])
        ELSE Returned(Vec3_lerp(vec3s[ti0], vec3s[ti1], Factor(times, ti0, ti1, t)))

interpolate_vec3(vec3s, times, t, interp) ==
    LET p == KeyframePair(Len(vec3s), times, t)
        ti0 == p[1]
        ti1 == p[2]
    IN  IF ti0 = ti1 THEN Returned(vec3s[ti0])
        ELSE IF interp = "Linear"
        THEN Returned(Vec3_lerp(vec3s[ti0], vec3s[ti1], Factor(times, ti0, ti1, t)))
        ELSE Panicked

interpolate_quat(quats, times, t, interp) ==
    LET p == KeyframePair(Len(quats), times, t)
        ti0 == p[1]
        ti1 == p[2]
    IN  IF ti0 = ti1 THEN Returned(quats[ti0])
        ELSE IF interp = "Linear"
        THEN Returned(Quat_lerp(quats[ti0], quats[ti1], Factor(times, ti0, ti1, t)))
        ELSE Panicked

\* ------------------------------------------------------------- assets
\* Bounds of the scenes.
MaxClips == 3
NumNodes == 2
NumEntities == 2
MaxBindings == 3

\* One channel of a GltfAnimation: its target property and its sampler.
Channel(path, output, interp, times, values) ==
    [path |-> path, output |-> output, interp |-> interp,
     times |-> times, values |-> values]

QX == <<One, 0, 0, 0>>
QNegW == <<0, 0, 0, -One>>

PosLin == Channel("Position", "Translations", "Linear", <<0, 2 * One>>,
                  << <<0, 0, 0>>, <<2 * One, 4 * One, -2 * One>> >>)
RotLin == Channel("Rotation", "Rotations", "Linear", <<0, 2 * One>>,
                  << Quat_IDENTITY, QX >>)
ScaleLin == Channel("Scale", "Scales", "Linear", <<0, 2 * One>>,
                    << Vec3_ONE, <<2 * One, 2 * One, 3 * One>> >>)
PosLinB == Channel("Position", "Translations", "Linear", <<One, 2 * One>>,
                   << <<4 * One, One, 0>>, <<8 * One, 3 * One, -One>> >>)
RotNeg == Channel("Rotation", "Rotations", "Linear", <<One>>, << QNegW >>)
PosStep == Channel("Position", "Translations", "Step", <<One, 2 * One>>,
                   << <<One, One, One>>, <<3 * One, 3 * One, 3 * One>> >>)
Morph == Channel("MorphTargetWeights", "MorphTargetWeights", "Linear",
                 <<16 * One, 18 * One>>, << <<0>>, <<One>> >>)
Mismatch == Channel("Position", "Rotations", "Linear", <<16 * One, 18 * One>>,
                    << Quat_IDENTITY, QX >>)
ScaleCubic == Channel("Scale", "Scales", "CubicSpline", <<16 * One, 18 * One>>,
                      << Vec3_ONE, <<2 * One, 2 * One, 2 * One>> >>)

\* A GltfAnimation asset: its channels, and what start_time() and
\* duration() return for it.
ClipLib ==
    << [channels |-> <<PosLin, RotLin, ScaleLin>>, start_time |-> 0, duration |-> 2 * One],
       [channels |-> <<PosLinB, RotNeg, PosStep>>, start_time |-> One, duration |-> One],
       [channels |-> <<Morph, Mismatch, ScaleCubic>>, start_time |-> 16 * One,
        duration |-> 2 * One] >>

\* Every clip of the library has this many channels.
NumChannels == Len(ClipLib[1].channels)

\* The GltfAnimation behind handle h of a scene whose first clip is the
\* first-th of the library.
AnimAsset(first, h) == ClipLib[((h + first - 2) % Len(ClipLib)) + 1]

\* The one Gltf asset: its handle, and its animations (handles 1..nclips).
GltfHandle == "SimpleSkin.gltf"
GltfAnimations(nclips) == [i \in 1..nclips |-> i]

\* Binding slots <<node, anim_idx, chan_idx>>: the GltfAnimTargetInfo of
\* the nodes, at most MaxBindings of them over all nodes.
Slots(nclips) == (1..NumNodes) \X (1..nclips) \X (1..NumChannels)

RECURSIVE SubsetsUpTo(_, _)
SubsetsUpTo(S, k) ==
    IF k = 0 THEN {{}}
    ELSE LET prev == SubsetsUpTo(S, k - 1)
         IN  prev \cup {p \cup {x} : p \in prev, x \in S}

SlotKey(b) == b[2] * (NumChannels + 1) + b[3]

RECURSIVE SortedBindings(_)
SortedBindings(B) ==
    IF B = {} THEN <<>>
    ELSE LET b == CHOOSE x \in B : \A y \in B : SlotKey(x) <= SlotKey(y)
         IN  <<b>> \o SortedBindings(B \ {b})

\* animation_indices zipped with channel_indices, per node.
TargetInfos(B) ==
    [n \in 1..NumNodes |->
        LET sb == SortedBindings({b \in B : b[1] = n})
        IN  [k \in 1..Len(sb) |-> <<sb[k][2], sb[k][3]>>]]

Scenes ==
    UNION { { [nclips |-> nc, first |-> f, targets |-> TargetInfos(B)] :
                f \in 1..Len(ClipLib), B \in SubsetsUpTo(Slots(nc), MaxBindings) } :
            nc \in 0..MaxClips }

NoScene == [nclips |-> 0, first |-> 1, targets |-> [n \in 1..NumNodes |-> <<>>]]

\* ------------------------------------------------------------- state
VARIABLES
    scene,          \* the content of the Gltf asset and of the target nodes
    gltf_assets,    \* Assets<Gltf>: the resident Gltf handles
    anim_assets,    \* Assets<GltfAnimation>: the resident animation handles
    activations,    \* the entities with an ActivateGltfAnimation component
    controllers,    \* entity -> its GltfAnimationController
    xfm,            \* node -> its Transform
    time_secs,      \* the elapsed time of the last update_animation_controllers
    updated,        \* the controllers that run updated
    crashed,        \* "none", or the panic that ended the process
    last,           \* what the last update_gltf_animations did
    smp             \* a sampler call: function, arguments and outcome

vars == <<scene, gltf_assets, anim_assets, activations, controllers, xfm,
          time_secs, updated, crashed, last, smp>>

sysvars == <<scene, gltf_assets, anim_assets, activations, controllers, xfm,
             time_secs, updated, crashed, last>>

QY == <<0, One, 0, 0>>
InitialTransform ==
    [translation |-> <<7 * One, 7 * One, 7 * One>>, rotation |-> QY,
     scale |-> <<3 * One, 3 * One, 3 * One>>]

NoFrame == [ran |-> FALSE, prev |-> <<>>, written |-> {}, sampled |-> {},
            eval_data |-> <<>>]

NoCall == [fn |-> "none", values |-> <<>>, times |-> <<>>, t |-> 0,
           interp |-> "Linear", done |-> FALSE, ret |-> Panicked]

NoControllers == [e \in {} |-> 0]

\* ------------------------------------------------------------- update_gltf_animations
\* sample_animation_value: the sample kind and value, or the panic of the
\* interpolation.
Sample(kind, r) == [panic |-> r.panic, kind |-> kind, value |-> r.value]

sample_animation_value(sampler, time) ==
    CASE sampler.output = "Translations" ->
            Sample("Position", interpolate_vec3(sampler.values, sampler.times, time, sampler.interp))
      [] sampler.output = "Rotations" ->
            Sample("Rotation", interpolate_quat(sampler.values, sampler.times, time, sampler.interp))
      [] sampler.output = "Scales" ->
            Sample("Scale", interpolate_vec3(sampler.values, sampler.times, time, sampler.interp))
      [] sampler.output = "MorphTargetWeights" ->
            Sample("MorphTargetWeights", Returned(<<0>>))

\* EvalData that keeps the first insert of a handle: the pair of the first
\* controller in query order that references it.
EvalData_first(ctrls) ==
    LET refs(h) == {e \in DOMAIN ctrls :
                       \E i \in 1..Len(ctrls[e].animations) : ctrls[e].animations[i] = h}
        handles == {h \in 1..MaxClips + 1 : refs(h) # {}}
    IN  [h \in handles |->
            LET c == ctrls[SetMin(refs(h))]
                i == SetMin({k \in 1..Len(c.animations) : c.animations[k] = h})
            IN  <<c.times[i], c.weights[i]>>]

\* eval_data: animation handle -> (time, weight), inserted controller by
\* controller in query order (ascending entity), a later insert replacing
\* an earlier one.
EvalData(ctrls) ==
    LET refs(h) == {e \in DOMAIN ctrls :
                       \E i \in 1..Len(ctrls[e].animations) : ctrls[e].animations[i] = h}
        handles == {h \in 1..MaxClips + 1 : refs(h) # {}}
    IN  [h \in handles |->
            LET c == ctrls[SetMax(refs(h))]
                i == SetMax({k \in 1..Len(c.animations) : c.animations[k] = h})
            IN  <<c.times[i], c.weights[i]>>]

\* node_animations: the bindings whose animation is resident and has an
\* entry in eval_data, each with its channel, time and weight.
NodeAnimations(sc, anims, eval_data, n) ==
    LET tg == sc.targets[n]
        ok == {k \in 1..Len(tg) :
                  /\ GltfAnimations(sc.nclips)[tg[k][1]] \in anims
                  /\ GltfAnimations(sc.nclips)[tg[k][1]] \in DOMAIN eval_data}
        RECURSIVE Collect(_)
        Collect(k) ==
            IF k > Len(tg) THEN <<>>
            ELSE IF k \in ok
            THEN << [binding |-> k,
                     channel |-> AnimAsset(sc.first, GltfAnimations(sc.nclips)[tg[k][1]])
                                     .channels[tg[k][2]],
                     time |-> eval_data[GltfAnimations(sc.nclips)[tg[k][1]]][1],
                     weight |-> eval_data[GltfAnimations(sc.nclips)[tg[k][1]]][2]] >>
                 \o Collect(k + 1)
            ELSE Collect(k + 1)
    IN  Collect(1)

NoAccum == [pos |-> <<>>, rot |-> <<>>, scale |-> <<>>, panic |-> "none", sampled |-> {}]

\* AccumulateOne with the weight test after the sampling: a channel of
\* weight 0 is sampled, then dropped.
AccumulateOne_samplefirst(acc, it) ==
    LET s == sample_animation_value(it.channel, it.time)
        a == [acc EXCEPT !.sampled = @ \cup {it.binding}]
        path == it.channel.path
    IN  IF s.panic THEN [a EXCEPT !.panic = "todo: interpolation"]
        ELSE IF it.weight = 0 THEN a
        ELSE IF path = "Position" /\ s.kind = "Position"
        THEN [a EXCEPT !.pos = Append(@, <<s.value, it.weight>>)]
        ELSE IF path = "Rotation" /\ s.kind = "Rotation"
        THEN [a EXCEPT !.rot = Append(@, <<s.value, it.weight>>)]
        ELSE IF path = "Scale" /\ s.kind = "Scale"
        THEN [a EXCEPT !.scale = Append(@, <<s.value, it.weight>>)]
        ELSE IF path = "MorphTargetWeights" /\ s.kind = "MorphTargetWeights"
        THEN [a EXCEPT !.panic = "todo: Morph target weights NYI."]
        ELSE [a EXCEPT !.panic = "Mismatch between target property and sampler output type."]

\* One pass of the accumulation loop for item it.
AccumulateOne(acc, it) ==
    IF it.weight = 0 THEN acc
    ELSE LET s == sample_animation_value(it.channel, it.time)
             a == [acc EXCEPT !.sampled = @ \cup {it.binding}]
             path == it.channel.path
         IN  IF s.panic THEN [a EXCEPT !.panic = "todo: interpolation"]
             ELSE IF path = "Position" /\ s.kind = "Position"
             THEN [a EXCEPT !.pos = Append(@, <<s.value, it.weight>>)]
             ELSE IF path = "Rotation" /\ s.kind = "Rotation"
             THEN [a EXCEPT !.rot = Append(@, <<s.value, it.weight>>)]
             ELSE IF path = "Scale" /\ s.kind = "Scale"
             THEN [a EXCEPT !.scale = Append(@, <<s.value, it.weight>>)]
             ELSE IF path = "MorphTargetWeights" /\ s.kind = "MorphTargetWeights"
             THEN [a EXCEPT !.panic = "todo: Morph target weights NYI."]
             ELSE [a EXCEPT !.panic = "Mismatch between target property and sampler output type."]

RECURSIVE Accumulate(_, _, _)
Accumulate(items, k, acc) ==
    IF k > Len(items) \/ acc.panic # "none" THEN acc
    ELSE Accumulate(items, k + 1, AccumulateOne(acc, items[k]))

None == [some |-> FALSE, value |-> <<>>]
Some(v) == [some |-> TRUE, value |-> v]

\* fold((Vec3::ZERO, 0.), |(acc, acc_w), (v, w)| (acc + (v * w), acc_w + w))
RECURSIVE FoldWeighted(_, _, _)
FoldWeighted(accum, k, st) ==
    IF k > Len(accum) THEN st
    ELSE FoldWeighted(accum, k + 1,
                      <<Vec3Add(st[1], Vec3MulS(accum[k][1], accum[k][2])),
                        FAdd(st[2], accum[k][2])>>)

\* BlendVec3 without the division by the sum of the weights.
BlendVec3_sum(accum) ==
    IF Len(accum) > 0
    THEN Some(FoldWeighted(accum, 1, <<Vec3_ZERO, 0>>)[1])
    ELSE None

BlendVec3(accum) ==
    IF Len(accum) > 0
    THEN LET f == FoldWeighted(accum, 1, <<Vec3_ZERO, 0>>)
         IN  Some(Vec3DivS(f[1], f[2]))
    ELSE None

\* fold(Quat::IDENTITY, |acc, (rot, w)| Quat::lerp(Quat::IDENTITY, rot, w) * acc)
RECURSIVE FoldRotation(_, _, _)
FoldRotation(accum, k, acc) ==
    IF k > Len(accum) THEN acc
    ELSE FoldRotation(accum, k + 1,
                      Quat_mul(Quat_lerp(Quat_IDENTITY, accum[k][1], accum[k][2]), acc))

BlendRotation(accum) ==
    IF Len(accum) > 0 THEN Some(FoldRotation(accum, 1, Quat_IDENTITY)) ELSE None

\* AssignTransform that resets a field no channel contributes to.
AssignTransform_reset(x, acc) ==
    LET translation == BlendVec3(acc.pos)
        rotation == BlendRotation(acc.rot)
        scl == BlendVec3(acc.scale)
    IN  [translation |-> IF translation.some THEN translation.value ELSE Vec3_ZERO,
         rotation |-> IF rotation.some THEN rotation.value ELSE Quat_IDENTITY,
         scale |-> IF scl.some THEN scl.value ELSE Vec3_ONE]

\* The assignments at the end of the loop body.
AssignTransform(x, acc) ==
    LET translation == BlendVec3(acc.pos)
        rotation == BlendRotation(acc.rot)
        scl == BlendVec3(acc.scale)
    IN  [translation |-> IF translation.some THEN translation.value ELSE x.translation,
         rotation |-> IF rotation.some THEN rotation.value ELSE x.rotation,
         scale |-> IF scl.some THEN scl.value ELSE x.scale]

\* The accumulators of node n in this frame.
NodeAccum(sc, anims, eval_data, n) ==
    Accumulate(NodeAnimations(sc, anims, eval_data, n), 1, NoAccum)

\* The loop over the target nodes, in query order from node n on: a node
\* whose Gltf is not resident is skipped, a panic ends the loop.
RECURSIVE RunNodes(_, _, _, _, _, _)
RunNodes(sc, gltfs, anims, eval_data, n, st) ==
    IF n > NumNodes \/ st.crashed # "none" THEN st
    ELSE IF GltfHandle \notin gltfs
    THEN RunNodes(sc, gltfs, anims, eval_data, n + 1, st)
    ELSE LET acc == NodeAccum(sc, anims, eval_data, n)
             sampled == st.sampled \cup {<<n, k>> : k \in acc.sampled}
         IN  IF acc.panic # "none"
             THEN [st EXCEPT !.crashed = acc.panic, !.sampled = sampled]
             ELSE RunNodes(sc, gltfs, anims, eval_data, n + 1,
                           [st EXCEPT !.xfm[n] = AssignTransform(st.xfm[n], acc),
                                      !.written = @ \cup {n},
                                      !.sampled = sampled])

update_gltf_animations ==
    /\ crashed = "none"
    /\ \E eval_data \in {EvalData(controllers)} :
       \E r \in {RunNodes(scene, gltf_assets, anim_assets, eval_data, 1,
                          [xfm |-> xfm, crashed |-> "none", written |-> {}, sampled |-> {}])} :
           /\ xfm' = r.xfm
           /\ crashed' = r.crashed
           /\ last' = [ran |-> TRUE, prev |-> xfm, written |-> r.written,
                       sampled |-> r.sampled, eval_data |-> eval_data]
    /\ UNCHANGED <<scene, gltf_assets, anim_assets, activations, controllers,
                   time_secs, updated, smp>>

\* ------------------------------------------------------------- activate_animations
\* InitialWeights with every animation index at weight 1.
InitialWeights_all(n) == [i \in 1..n |-> One]

\* weights: the first animation index begins with weight 1.
InitialWeights(n) == [i \in 1..n |-> IF i = 1 THEN One ELSE 0]

NewController(sc) ==
    LET animations == GltfAnimations(sc.nclips)
    IN  [animations |-> animations,
         times |-> [i \in 1..Len(animations) |-> 0],
         weights |-> InitialWeights(Len(animations)),
         start_times |-> [i \in 1..Len(animations) |->
                             AnimAsset(sc.first, animations[i]).start_time],
         durations |-> [i \in 1..Len(animations) |->
                           AnimAsset(sc.first, animations[i]).duration]]

\* The entities whose Gltf is resident get a controller in place of their
\* ActivateGltfAnimation; building it unwraps every animation asset.
activate_animations ==
    /\ crashed = "none"
    /\ IF activations = {} \/ GltfHandle \notin gltf_assets
       THEN UNCHANGED <<activations, controllers, crashed>>
       ELSE IF \E i \in 1..scene.nclips : GltfAnimations(scene.nclips)[i] \notin anim_assets
       THEN /\ crashed' = "unwrap on None: anim_assets.get"
            /\ UNCHANGED <<activations, controllers>>
       ELSE /\ controllers' = [e \in DOMAIN controllers \cup activations |->
                                  IF e \in activations THEN NewController(scene)
                                  ELSE controllers[e]]
            /\ activations' = {}
            /\ UNCHANGED crashed
    /\ UNCHANGED <<scene, gltf_assets, anim_assets, xfm, time_secs, updated, last, smp>>

\* ------------------------------------------------------------- update_animation_controllers
\* UpdateController without the modulo: the clip does not loop.
UpdateController_noloop(ctrl, secs) ==
    [ctrl EXCEPT !.times = [i \in 1..Len(ctrl.times) |->
                               FAdd(ctrl.start_times[i], secs)],
                 !.weights = [i \in 1..Len(ctrl.weights) |-> IF i = 1 THEN One ELSE 0]]

\* The body of the loop for one controller.
UpdateController(ctrl, secs) ==
    [ctrl EXCEPT !.times = [i \in 1..Len(ctrl.times) |->
                               FAdd(ctrl.start_times[i], FRem(secs, ctrl.durations[i]))],
                 !.weights = [i \in 1..Len(ctrl.weights) |-> IF i = 1 THEN One ELSE 0]]

\* Elapsed times of the Time resource.
ElapsedVals == {0, Half, One + Quarter, 2 * One + Half}

update_animation_controllers(secs) ==
    /\ crashed = "none"
    /\ LET \* weights[0] = 1. panics on a controller of no animations
           bad == {e \in DOMAIN controllers : Len(controllers[e].weights) = 0}
           done == IF bad = {} THEN DOMAIN controllers
                   ELSE {e \in DOMAIN controllers : e < SetMin(bad)}
       IN  /\ controllers' = [e \in DOMAIN controllers |->
                                 IF e \in done THEN UpdateController(controllers[e], secs)
                                 ELSE controllers[e]]
           /\ crashed' = IF bad = {} THEN "none" ELSE "index out of bounds: weights[0]"
           /\ updated' = done
    /\ time_secs' = secs
    /\ UNCHANGED <<scene, gltf_assets, anim_assets, activations, xfm, last, smp>>

\* ------------------------------------------------------------- the engine
\* setup: an entity is given an ActivateGltfAnimation component.
RequestActivation(e) ==
    /\ crashed = "none"
    /\ e \notin activations
    /\ e \notin DOMAIN controllers
    /\ activations' = activations \cup {e}
    /\ UNCHANGED <<scene, gltf_assets, anim_assets, controllers, xfm, time_secs,
                   updated, crashed, last, smp>>

\* The asset server finishes loading the Gltf, or one of its animations.
LoadGltf ==
    /\ crashed = "none"
    /\ GltfHandle \notin gltf_assets
    /\ gltf_assets' = gltf_assets \cup {GltfHandle}
    /\ UNCHANGED <<scene, anim_assets, activations, controllers, xfm, time_secs,
                   updated, crashed, last, smp>>

LoadAnimation(h) ==
    /\ crashed = "none"
    /\ h \in 1..scene.nclips
    /\ h \notin anim_assets
    /\ anim_assets' = anim_assets \cup {h}
    /\ UNCHANGED <<scene, gltf_assets, activations, controllers, xfm, time_secs,
                   updated, crashed, last, smp>>

\* Every channel of every clip bound to one node.
FullBindings(nc) ==
    {<<((a + c) % NumNodes) + 1, a, c>> : a \in 1..nc, c \in 1..NumChannels}

ProgramScenes ==
    { [nclips |-> nc, first |-> f, targets |-> TargetInfos(FullBindings(nc))] :
          nc \in 0..MaxClips, f \in 1..Len(ClipLib) }


Init ==
    /\ scene \in ProgramScenes
    /\ gltf_assets = {}
    /\ anim_assets = {}
    /\ activations = {}
    /\ controllers = NoControllers
    /\ xfm = [n \in 1..NumNodes |-> InitialTransform]
    /\ time_secs = 0
    /\ updated = {}
    /\ crashed = "none"
    /\ last = NoFrame
    /\ smp = NoCall

Next ==
    \/ \E e \in 1..NumEntities : RequestActivation(e)
    \/ LoadGltf
    \/ \E h \in 1..MaxClips : LoadAnimation(h)
    \/ activate_animations
    \/ \E secs \in ElapsedVals : update_animation_controllers(secs)
    \/ update_gltf_animations

Spec == Init /\ [][Next]_vars

\* ------------------------------------------------------------- blending alone
\* update_gltf_animations under controllers of any weights: everything is
\* resident, one controller holds every clip of the Gltf.
WeightVals == {0, Quarter, 3 * Quarter, One}
TimeOffsets == {0, Half}

BlendInit ==
    /\ scene \in {sc \in Scenes : sc.nclips >= 1 /\ sc.first = 1}
    /\ gltf_assets = {GltfHandle}
    /\ anim_assets = 1..scene.nclips
    /\ activations = {}
    /\ \E off \in TimeOffsets, ws \in [1..scene.nclips -> WeightVals] :
          /\ \A i \in 1..scene.nclips :
                 (\A n \in 1..NumNodes : \A k \in 1..Len(scene.targets[n]) :
                      scene.targets[n][k][1] # i) => ws[i] = One
          /\ controllers = [e \in {1} |->
                [NewController(scene) EXCEPT
                    !.weights = ws,
                    !.times = [i \in 1..scene.nclips |->
                                  FAdd(AnimAsset(scene.first, i).start_time, off)]]]
    /\ xfm = [n \in 1..NumNodes |-> InitialTransform]
    /\ time_secs = 0
    /\ updated = {}
    /\ crashed = "none"
    /\ last = NoFrame
    /\ smp = NoCall

BlendNext == update_gltf_animations

SpecBlend == BlendInit /\ [][BlendNext]_vars

\* ------------------------------------------------------------- sampler calls
\* Keyframe times, query times and values the sampler is called with.
TimeVals == {0, One, 2 * One}
QueryTimes == TimeVals \cup {-One, Half, One + Half, One + Quarter, 3 * One}
Vec3Vals == { Vec3_ZERO,
              <<One, 2 * One, 3 * One>>,
              <<-One, Half, 5 * One>>,
              <<18 * One, -3 * One, Quarter>> }
QuatVals == { Quat_IDENTITY,
              <<0, 0, 0, -One>>,
              <<One, 0, 0, 0>>,
              <<Half, -Half, Half, -Half>> }

NonDecreasing(ts) == \A i \in 1..(Len(ts) - 1) : ts[i] <= ts[i + 1]
SeqsUpTo(S, n) == UNION {[1..k -> S] : k \in 1..n}
TrackTimes == {ts \in SeqsUpTo(TimeVals, MaxKeys) : NonDecreasing(ts)}

\* The arguments of one call, not yet made.
SampleArgs ==
    \E ts \in TrackTimes, t \in QueryTimes, interp \in Interpolations :
        \/ \E vs \in [1..Len(ts) -> Vec3Vals] :
             smp = [fn |-> "interpolate_vec3", values |-> vs, times |-> ts,
                    t |-> t, interp |-> interp, done |-> FALSE, ret |-> Panicked]
        \/ \E qs \in [1..Len(ts) -> QuatVals] :
             smp = [fn |-> "interpolate_quat", values |-> qs, times |-> ts,
                    t |-> t, interp |-> interp, done |-> FALSE, ret |-> Panicked]

SampleInit ==
    /\ scene = NoScene
    /\ gltf_assets = {}
    /\ anim_assets = {}
    /\ activations = {}
    /\ controllers = NoControllers
    /\ xfm = [n \in 1..NumNodes |-> InitialTransform]
    /\ time_secs = 0
    /\ updated = {}
    /\ crashed = "none"
    /\ last = NoFrame
    /\ SampleArgs

CallInterpolateVec3 ==
    /\ smp.fn = "interpolate_vec3"
    /\ ~smp.done
    /\ smp' = [smp EXCEPT !.done = TRUE,
                          !.ret = interpolate_vec3(smp.values, smp.times, smp.t, smp.interp)]
    /\ UNCHANGED sysvars

CallInterpolateQuat ==
    /\ smp.fn = "interpolate_quat"
    /\ ~smp.done
    /\ smp' = [smp EXCEPT !.done = TRUE,
                          !.ret = interpolate_quat(smp.values, smp.times, smp.t, smp.interp)]
    /\ UNCHANGED sysvars

SampleNext == CallInterpolateVec3 \/ CallInterpolateQuat

SpecSample == SampleInit /\ [][SampleNext]_vars

\* ------------------------------------------------------------- C1
QuatNeg(a) == <<-a[1], -a[2], -a[3], -a[4]>>
\* b - a is a float in every component: the f32 subtraction does not round.
ExactDiff(a, b) == \A i \in DOMAIN a : IsFloat(b[i] - a[i])
FirstAt(ts, t) == CHOOSE j \in 1..Len(ts) : ts[j] = t /\ \A i \in 1..(j - 1) : ts[i] # t

C1_Case ==
    /\ smp.done
    /\ smp.interp = "Linear"
    /\ Len(smp.times) >= 2
    /\ \E k \in 1..Len(smp.times) : smp.times[k] = smp.t

\* C1 as stated: a Linear track of at least 2 keyframes sampled at
\* t = times[k] returns exactly values[k], for every k, interpolate_vec3
\* and interpolate_quat alike, adjacent keyframes of equal time included.
C1_Original ==
    C1_Case =>
        \A k \in 1..Len(smp.times) :
            smp.times[k] = smp.t => smp.ret = Returned(smp.values[k])

\* C1 amended: sampling a Linear track of at least 2 keyframes at
\* t = times[k] evaluates the first keyframe j whose time is t.  For the
\* first keyframe of the track it returns values[j] untouched; otherwise it
\* returns lerp(values[j-1], values[j], 1.0), which is values[j] for
\* interpolate_vec3 when the f32 difference values[j] - values[j-1] is exact,
\* and for interpolate_quat is values[j], negated when its dot product with
\* values[j-1] is negative, when that difference is exact and the squared
\* length of values[j] is exactly 1.
C1_FirstKeyframeAtTime ==
    C1_Case =>
        LET j == FirstAt(smp.times, smp.t)
            v == smp.values
        IN  /\ ~smp.ret.panic
            /\ j = 1 => smp.ret.value = v[1]
            /\ (j > 1 /\ smp.fn = "interpolate_vec3" /\ ExactDiff(v[j - 1], v[j]))
                   => smp.ret.value = v[j]
            /\ j > 1 /\ smp.fn = "interpolate_quat" =>
                   LET x == IF Dot4(v[j - 1], v[j]) >= 0 THEN v[j] ELSE QuatNeg(v[j])
                   IN  (ExactDiff(v[j - 1], x) /\ Dot4(x, x) = One)
                           => smp.ret.value = x

\* A track <<0, 1, 1>> sampled at t = 1 returned the value of keyframe 2,
\* the first of the two keyframes at time 1, whose values differ.
C1_Witness ==
    /\ C1_Case
    /\ smp.fn = "interpolate_vec3"
    /\ smp.times = <<0, One, One>>
    /\ smp.t = One
    /\ smp.values[2] # smp.values[3]
    /\ smp.values[1] # smp.values[2]
    /\ smp.ret = Returned(smp.values[2])

\* ------------------------------------------------------------- C2
\* C2 as stated: on a non-empty track a query time before or at the first
\* keyframe time returns values[0], one after or at the last keyframe time
\* returns values[last], without interpolation in every interpolation
\* mode, and no index passes the last keyframe.
C2_Original ==
    smp.done =>
        /\ smp.t <= smp.times[1] => smp.ret = Returned(smp.values[1])
        /\ smp.t >= smp.times[Len(smp.times)]
               => smp.ret = Returned(smp.values[Len(smp.values)])
        /\ KeyframePair(Len(smp.values), smp.times, smp.t)[2] <= Len(smp.values)

\* C2 amended: a query time before or at the first keyframe time returns
\* values[0] and one strictly after the last keyframe time returns
\* values[last], without interpolation in every interpolation mode, and no
\* index passes the last keyframe.  (At the last keyframe time itself a
\* track whose first keyframe is earlier is interpolated with factor 1.)
C2_FlatExtrapolation ==
    smp.done =>
        /\ smp.t <= smp.times[1] => smp.ret = Returned(smp.values[1])
        /\ smp.t > smp.times[Len(smp.times)]
               => smp.ret = Returned(smp.values[Len(smp.values)])
        /\ KeyframePair(Len(smp.values), smp.times, smp.t)[1] >= 1
        /\ KeyframePair(Len(smp.values), smp.times, smp.t)[2] <= Len(smp.values)

\* A Step track of 2 keyframes with different values sampled after its
\* last keyframe returned the last value.
C2_Witness ==
    /\ smp.done
    /\ smp.interp = "Step"
    /\ Len(smp.times) = 2
    /\ smp.times[1] < smp.times[2]
    /\ smp.t > smp.times[2]
    /\ smp.values[1] # smp.values[2]
    /\ smp.ret = Returned(smp.values[2])

\* ------------------------------------------------------------- C10
\* The rightmost keyframe strictly before t, with a later keyframe after t.
C10_Case ==
    /\ smp.done
    /\ smp.fn = "interpolate_vec3"
    /\ smp.interp = "Linear"
    /\ \E i \in 1..(Len(smp.times) - 1) :
           smp.times[i] < smp.t /\ smp.t < smp.times[i + 1]

C10_Index == CHOOSE i \in 1..(Len(smp.times) - 1) :
                 smp.times[i] < smp.t /\ smp.t < smp.times[i + 1]

\* value = v0 + (v1 - v0) * (t - t0) / (t1 - t0) over the rationals,
\* cross-multiplied by t1 - t0.
ExactLerp(value, v0, v1, t0, t1, t) ==
    \A c \in DOMAIN v0 :
        value[c] * (t1 - t0) = v0[c] * (t1 - t0) + (v1[c] - v0[c]) * (t - t0)

\* C10 as stated: strictly between two adjacent keyframes of distinct
\* times a Linear vector track returns
\* values[i] + (values[i+1] - values[i]) * (t - times[i]) / (times[i+1] - times[i])
\* componentwise, and (values[i] + values[i+1]) / 2 at the midpoint; each
\* formula is read over the reals or in f32, whichever the result meets.
C10_Original ==
    C10_Case =>
        LET i == C10_Index
            v0 == smp.values[i]
            v1 == smp.values[i + 1]
            s == FDiv(FSub(smp.t, smp.times[i]), FSub(smp.times[i + 1], smp.times[i]))
        IN  /\ ~smp.ret.panic
            /\ \/ ExactLerp(smp.ret.value, v0, v1, smp.times[i], smp.times[i + 1], smp.t)
               \/ \A c \in 1..3 :
                      smp.ret.value[c] = FAdd(v0[c], FMul(FSub(v1[c], v0[c]), s))
            /\ 2 * smp.t = smp.times[i] + smp.times[i + 1] =>
                   \/ \A c \in 1..3 : 2 * smp.ret.value[c] = v0[c] + v1[c]
                   \/ \A c \in 1..3 :
                          smp.ret.value[c] = FDiv(FAdd(v0[c], v1[c]), 2 * One)

\* No f32 operation of lerp(v0, v1, (t - t0) / (t1 - t0)) rounds.
NoRounding(v0, v1, t0, t1, t) ==
    /\ IsFloat(t - t0)
    /\ IsFloat(t1 - t0)
    /\ ((t - t0) * One) % (t1 - t0) = 0
    /\ IsFloat(((t - t0) * One) \div (t1 - t0))
    /\ \A c \in DOMAIN v0 :
           LET s == ((t - t0) * One) \div (t1 - t0)
               d == v1[c] - v0[c]
           IN  /\ IsFloat(d)
               /\ (d * s) % One = 0
               /\ IsFloat((d * s) \div One)
               /\ IsFloat(v0[c] + (d * s) \div One)

\* C10 amended: strictly between two adjacent keyframes of distinct times
\* a Linear vector track returns lerp(v0, v1, s) = v0 + (v1 - v0) * s with
\* s = (t - t0) / (t1 - t0), each operation rounded to f32, componentwise,
\* for the rightmost keyframe before t.  It equals the real-valued
\* v0 + (v1 - v0) * (t - t0) / (t1 - t0), and (v0 + v1) / 2 at the
\* midpoint, when no operation rounds.
C10_LinearBetweenKeyframes ==
    C10_Case =>
        LET i == C10_Index
            v0 == smp.values[i]
            v1 == smp.values[i + 1]
            t0 == smp.times[i]
            t1 == smp.times[i + 1]
            s == FDiv(FSub(smp.t, t0), FSub(t1, t0))
        IN  /\ ~smp.ret.panic
            /\ \A c \in 1..3 :
                   smp.ret.value[c] = FAdd(v0[c], FMul(FSub(v1[c], v0[c]), s))
            /\ NoRounding(v0, v1, t0, t1, smp.t) =>
                   /\ ExactLerp(smp.ret.value, v0, v1, t0, t1, smp.t)
                   /\ 2 * smp.t = t0 + t1 =>
                          \A c \in 1..3 : 2 * smp.ret.value[c] = v0[c] + v1[c]

\* A track sampled at the midpoint of keyframes 2 and 3, at times 1 and 2,
\* with different values, where no operation rounds.
C10_Witness ==
    /\ C10_Case
    /\ Len(smp.times) = 3
    /\ C10_Index = 2
    /\ smp.times[2] = One
    /\ 2 * smp.t = smp.times[2] + smp.times[3]
    /\ smp.values[2] # smp.values[3]
    /\ NoRounding(smp.values[2], smp.values[3], smp.times[2], smp.times[3], smp.t)
    /\ \A c \in 1..3 : 2 * smp.ret.value[c] = smp.values[2][c] + smp.values[3][c]

\* ------------------------------------------------------------- C3
\* C3 as stated: after update_animation_controllers ran with elapsed time
\* e, every clip i of every controller has
\* times[i] = start_times[i] + (e mod durations[i]), which for
\* durations[i] > 0 and e >= 0 lies in [start_times[i],
\* start_times[i] + durations[i]); duration 2.0, start 0.0, elapsed 2.5
\* gives 0.5.
C3_Original ==
    \A e \in updated :
        LET c == controllers[e]
        IN  \A i \in 1..Len(c.times) :
                /\ c.times[i] = FAdd(c.start_times[i], FRem(time_secs, c.durations[i]))
                /\ (c.durations[i] > 0 /\ time_secs >= 0) =>
                       /\ c.start_times[i] <= c.times[i]
                       /\ c.times[i] < c.start_times[i] + c.durations[i]
                /\ (c.durations[i] = 2 * One /\ c.start_times[i] = 0
                        /\ time_secs = 2 * One + Half) => c.times[i] = Half

\* C3 amended: after update_animation_controllers ran with elapsed time e,
\* every clip i of every controller has
\* times[i] = start_times[i] + (e mod durations[i]) in f32, which for
\* durations[i] > 0 and e >= 0 lies between start_times[i] and the f32 sum
\* start_times[i] + durations[i], both included: it is below the exact sum
\* when the addition does not round; duration 2.0, start 0.0, elapsed 2.5
\* gives 0.5.
C3_LoopedTime ==
    \A e \in updated :
        LET c == controllers[e]
        IN  \A i \in 1..Len(c.times) :
                /\ c.times[i] = FAdd(c.start_times[i], FRem(time_secs, c.durations[i]))
                /\ (c.durations[i] > 0 /\ time_secs >= 0) =>
                       /\ c.start_times[i] <= c.times[i]
                       /\ c.times[i] <= FAdd(c.start_times[i], c.durations[i])
                       /\ IsFloat(c.start_times[i] + (time_secs % c.durations[i]))
                              => c.times[i] < c.start_times[i] + c.durations[i]
                /\ (c.durations[i] = 2 * One /\ c.start_times[i] = 0
                        /\ time_secs = 2 * One + Half) => c.times[i] = Half

\* A controller updated at elapsed time 2.5 whose first clip, of duration
\* 2.0 from 0.0, is at 0.5, and another clip of which is at its start.
C3_Witness ==
    \E e \in updated :
        LET c == controllers[e]
        IN  /\ time_secs = 2 * One + Half
            /\ Len(c.times) >= 2
            /\ c.durations[1] = 2 * One
            /\ c.start_times[1] = 0
            /\ c.times[1] = Half
            /\ c.start_times[2] = One
            /\ c.times[2] = One + Half

\* ------------------------------------------------------------- C8
\* C8 as stated: a not-yet-resident asset is never fatal: in a frame where
\* the Gltf asset, an animation asset or the controller data is absent,
\* activate_animations and update_gltf_animations complete without
\* failing, whatever order the Gltf and its animations become resident in.
C8_Original ==
    crashed # "unwrap on None: anim_assets.get"

\* ------------------------------------------------------------- C9
\* C9 as stated: every controller, once created and after any number of
\* update_animation_controllers frames, has weight 1 on exactly the clip
\* of index 0 and weight 0 on every other clip, however many clips its
\* Gltf holds.
C9_Original ==
    \A e \in DOMAIN controllers :
        LET w == controllers[e].weights
        IN  /\ Cardinality({i \in 1..Len(w) : w[i] = One}) = 1
            /\ \A i \in 1..Len(w) : w[i] = (IF i = 1 THEN One ELSE 0)

\* C9 amended: every controller of a Gltf with at least one clip, once
\* created and after any number of update_animation_controllers frames,
\* has weight 1 on exactly the clip of index 0 and weight 0 on every other
\* clip; the controller of a Gltf without clips has no weights, and
\* update_animation_controllers never completes on it.
C9_SingleActiveClip ==
    \A e \in DOMAIN controllers :
        LET w == controllers[e].weights
        IN  /\ Len(w) = scene.nclips
            /\ Len(w) >= 1 =>
                   /\ Cardinality({i \in 1..Len(w) : w[i] = One}) = 1
                   /\ \A i \in 1..Len(w) : w[i] = (IF i = 1 THEN One ELSE 0)
            /\ Len(w) = 0 => e \notin updated

\* A controller of 3 clips, updated at a time that moved its first clip.
C9_Witness ==
    \E e \in updated :
        /\ controllers[e].weights = <<One, 0, 0>>
        /\ controllers[e].times[1] # 0

\* ------------------------------------------------------------- the frame of a node
\* Binding k of node n in the last frame: its clip, channel, time, weight
\* and what sampling it gives.
ClipOf(n, k) == GltfAnimations(scene.nclips)[scene.targets[n][k][1]]
ChannelOf(n, k) == AnimAsset(scene.first, ClipOf(n, k)).channels[scene.targets[n][k][2]]
Resolved(n) ==
    {k \in 1..Len(scene.targets[n]) :
        ClipOf(n, k) \in anim_assets /\ ClipOf(n, k) \in DOMAIN last.eval_data}
TimeOf(n, k) == last.eval_data[ClipOf(n, k)][1]
WeightOf(n, k) == last.eval_data[ClipOf(n, k)][2]
SampleOf(n, k) == sample_animation_value(ChannelOf(n, k), TimeOf(n, k))

\* The bindings of nonzero weight of node n, and those of one property kind.
NonZero(n) == {k \in Resolved(n) : WeightOf(n, k) # 0}
Contributing(n, kind) == {k \in NonZero(n) : ChannelOf(n, k).path = kind}

\* Sampling binding k gives a value of the kind its channel targets.
Valid(n, k) ==
    /\ ChannelOf(n, k).path \in {"Position", "Rotation", "Scale"}
    /\ ~SampleOf(n, k).panic
    /\ SampleOf(n, k).kind = ChannelOf(n, k).path
ValidNode(n) == \A k \in NonZero(n) : Valid(n, k)

\* The element of a set of one element.
TheOne(S) == CHOOSE x \in S : TRUE

\* sum(value_i * weight_i) and sum(weight_i) over the contributing channels
\* of a kind among the first k bindings of node n, then the mean.
RECURSIVE WeightedSum(_, _, _)
WeightedSum(n, kind, k) ==
    IF k = 0 THEN <<Vec3_ZERO, 0>>
    ELSE IF k \notin Contributing(n, kind) THEN WeightedSum(n, kind, k - 1)
    ELSE TheOne({ <<Vec3Add(p[1], Vec3MulS(v, w)), FAdd(p[2], w)>> :
                      p \in {WeightedSum(n, kind, k - 1)},
                      v \in {SampleOf(n, k).value},
                      w \in {WeightOf(n, k)} })

WeightedMean(n, kind) ==
    TheOne({ Vec3DivS(p[1], p[2]) : p \in {WeightedSum(n, kind, Len(scene.targets[n]))} })

\* The rotation fold over the contributing rotation channels among the
\* first k bindings of node n.
RECURSIVE RotationFold(_, _)
RotationFold(n, k) ==
    IF k = 0 THEN Quat_IDENTITY
    ELSE IF k \notin Contributing(n, "Rotation") THEN RotationFold(n, k - 1)
    ELSE TheOne({ Quat_mul(Quat_lerp(Quat_IDENTITY, v, w), q) :
                      q \in {RotationFold(n, k - 1)},
                      v \in {SampleOf(n, k).value},
                      w \in {WeightOf(n, k)} })

\* ------------------------------------------------------------- C4
\* Node n has two bindings, of weights 1 and 0, the first of them valid.
C4_Case(n) ==
    /\ Len(scene.targets[n]) = 2
    /\ Resolved(n) = {1, 2}
    /\ Cardinality(NonZero(n)) = 1
    /\ \A k \in NonZero(n) : WeightOf(n, k) = One /\ Valid(n, k)

C4_One(n) == CHOOSE k \in NonZero(n) : TRUE

\* No channel of weight 0 is sampled, and a node whose channels of nonzero
\* weight are all valid is written when every node before it is.
C4_ZeroWeightSkipped ==
    /\ \A b \in last.sampled : WeightOf(b[1], b[2]) # 0
    /\ \A n \in 1..NumNodes :
           (\A m \in 1..n : ValidNode(m)) => n \in last.written

\* C4 as stated: a channel whose clip weight is exactly 0 is never sampled
\* nor pushed to an accumulator, so the node's output does not depend on
\* it even where sampling it would fail; with two bound channels of
\* weights 1.0 and 0.0 the value written is exactly the sampled value of
\* the weight-1.0 channel.
C4_Original ==
    last.ran =>
        /\ C4_ZeroWeightSkipped
        /\ \A n \in last.written :
               C4_Case(n) =>
                   LET ch == ChannelOf(n, C4_One(n))
                       v == SampleOf(n, C4_One(n)).value
                   IN  /\ ch.path = "Position" => xfm[n].translation = v
                       /\ ch.path = "Rotation" => xfm[n].rotation = v
                       /\ ch.path = "Scale" => xfm[n].scale = v

\* C4 amended: a channel whose clip weight is exactly 0 is never sampled
\* nor pushed to an accumulator, so the node's output does not depend on
\* it even where sampling it would fail; with two bound channels of
\* weights 1.0 and 0.0 the translation or scale written is exactly the
\* sampled value of the weight-1.0 channel, and the rotation written is
\* Quat::lerp(IDENTITY, q, 1.0) of its sampled value q: q itself, negated
\* when q.w is negative, when the squared length of q is exactly 1 and
\* its f32 difference to the identity is exact.
C4_ZeroWeightIgnored ==
    last.ran =>
        /\ C4_ZeroWeightSkipped
        /\ \A n \in last.written :
               C4_Case(n) =>
                   LET ch == ChannelOf(n, C4_One(n))
                       v == SampleOf(n, C4_One(n)).value
                   IN  /\ ch.path = "Position" => xfm[n].translation = v
                       /\ ch.path = "Scale" => xfm[n].scale = v
                       /\ ch.path = "Rotation" =>
                              LET x == IF v[4] >= 0 THEN v ELSE QuatNeg(v)
                              IN  (ExactDiff(Quat_IDENTITY, x) /\ Dot4(x, x) = One)
                                      => xfm[n].rotation = x

\* A node bound to a Linear position channel of weight 1 and to a channel
\* of weight 0 whose sampling fails was written the position sample.
C4_Witness ==
    /\ last.ran
    /\ \E n \in last.written :
           /\ C4_Case(n)
           /\ ChannelOf(n, C4_One(n)).path = "Position"
           /\ \E k \in Resolved(n) : WeightOf(n, k) = 0 /\ ~Valid(n, k)
           /\ xfm[n].translation = SampleOf(n, C4_One(n)).value
           /\ xfm[n].translation # last.prev[n].translation

\* ------------------------------------------------------------- C5
\* Node n has two contributing channels of a kind, of weights 0.25 and 0.75.
C5_Case(n, kind) ==
    /\ Cardinality(Contributing(n, kind)) = 2
    /\ {WeightOf(n, k) : k \in Contributing(n, kind)} = {Quarter, 3 * Quarter}

C5_A(n, kind) == CHOOSE k \in Contributing(n, kind) : WeightOf(n, k) = Quarter
C5_B(n, kind) == CHOOSE k \in Contributing(n, kind) : WeightOf(n, k) = 3 * Quarter

\* 0.25 * A + 0.75 * B
C5_QuarterBlend(a, b) ==
    Vec3Add(Vec3MulS(a, Quarter), Vec3MulS(b, 3 * Quarter))

\* C5: for a node with one or more contributing (nonzero-weight) position
\* channels the translation written is sum(value_i * weight_i) /
\* sum(weight_i) over exactly those channels, and likewise for scale; two
\* channels of weights 0.25 and 0.75 and values A and B yield
\* 0.25 * A + 0.75 * B, whatever channels of weight 0 the node has besides.
C5_WeightedMean ==
    last.ran =>
        \A n \in last.written :
            /\ Contributing(n, "Position") # {} =>
                   /\ xfm[n].translation = WeightedMean(n, "Position")
                   /\ C5_Case(n, "Position") =>
                          xfm[n].translation =
                              C5_QuarterBlend(SampleOf(n, C5_A(n, "Position")).value,
                                              SampleOf(n, C5_B(n, "Position")).value)
            /\ Contributing(n, "Scale") # {} =>
                   /\ xfm[n].scale = WeightedMean(n, "Scale")
                   /\ C5_Case(n, "Scale") =>
                          xfm[n].scale =
                              C5_QuarterBlend(SampleOf(n, C5_A(n, "Scale")).value,
                                              SampleOf(n, C5_B(n, "Scale")).value)

\* A node with position channels of weights 0.25 and 0.75 and different
\* samples, and a third position channel of weight 0, was written the
\* blend of the two.
C5_Witness ==
    /\ last.ran
    /\ \E n \in last.written :
           /\ C5_Case(n, "Position")
           /\ \E k \in Resolved(n) : WeightOf(n, k) = 0 /\ ChannelOf(n, k).path = "Position"
           /\ SampleOf(n, C5_A(n, "Position")).value # SampleOf(n, C5_B(n, "Position")).value
           /\ xfm[n].translation =
                  C5_QuarterBlend(SampleOf(n, C5_A(n, "Position")).value,
                                  SampleOf(n, C5_B(n, "Position")).value)
           /\ xfm[n].translation # last.prev[n].translation

\* ------------------------------------------------------------- C6
\* C6: for each of translation, rotation and scale independently, a node
\* whose loop body reaches the assignments keeps the field when no
\* nonzero-weight channel of that kind contributes to it and has it
\* overwritten with the blend of the contributing channels otherwise; a
\* node the loop does not reach keeps every field.
C6_SparseOverride ==
    last.ran =>
        \A n \in 1..NumNodes :
            IF n \in last.written
            THEN /\ xfm[n].translation =
                        IF Contributing(n, "Position") = {} THEN last.prev[n].translation
                        ELSE WeightedMean(n, "Position")
                 /\ xfm[n].rotation =
                        IF Contributing(n, "Rotation") = {} THEN last.prev[n].rotation
                        ELSE RotationFold(n, Len(scene.targets[n]))
                 /\ xfm[n].scale =
                        IF Contributing(n, "Scale") = {} THEN last.prev[n].scale
                        ELSE WeightedMean(n, "Scale")
            ELSE xfm[n] = last.prev[n]

\* A node with a contributing rotation channel and no position channel
\* kept its translation and scale and had its rotation changed.
C6_Witness ==
    /\ last.ran
    /\ \E n \in last.written :
           /\ Contributing(n, "Rotation") # {}
           /\ \A k \in 1..Len(scene.targets[n]) : ChannelOf(n, k).path = "Rotation"
           /\ xfm[n].translation = InitialTransform.translation
           /\ xfm[n].scale = InitialTransform.scale
           /\ xfm[n].rotation # last.prev[n].rotation

\* ------------------------------------------------------------- C7
\* C7 as stated: an error raised for one channel of one node (a Step or
\* CubicSpline channel sampled between two keyframes, a morph-target-weights
\* channel of nonzero weight, a channel whose sampler output does not match
\* its target property) is local to it: the frame completes, and every
\* other node whose channels are valid has its transform computed and
\* written in that frame.
C7_Original ==
    last.ran =>
        \A n \in 1..NumNodes :
            (ValidNode(n) /\ NonZero(n) # {}) =>
                n \in last.written

\* ------------------------------------------------------------- C11
\* The controllers that reference clip h, and the last of them in query
\* order (the query visits the controllers by ascending entity).
Referencing(h) ==
    {e \in DOMAIN controllers :
        \E i \in 1..Len(controllers[e].animations) : controllers[e].animations[i] = h}

LastReferencing(h) == CHOOSE e \in Referencing(h) : \A f \in Referencing(h) : f <= e

\* The (time, weight) pair that controller e holds for clip h.
PairOf(e, h) ==
    LET c == controllers[e]
        i == CHOOSE k \in 1..Len(c.animations) :
                 /\ c.animations[k] = h
                 /\ \A j \in 1..Len(c.animations) : c.animations[j] = h => j <= k
    IN  <<c.times[i], c.weights[i]>>

\* One pair for each clip that some controller references: the pair of
\* the last controller that references it.
LastPairs ==
    [h \in {g \in 1..MaxClips + 1 : Referencing(g) # {}} |-> PairOf(LastReferencing(h), h)]

\* The controllers without the ones that are not the last to reference
\* any clip.
LastOnly ==
    [e \in {LastReferencing(h) : h \in DOMAIN LastPairs} |-> controllers[e]]

\* The frame that the table LastPairs gives from the current state.
FrameOfLastPairs ==
    RunNodes(scene, gltf_assets, anim_assets, LastPairs, 1,
             [xfm |-> xfm, crashed |-> "none", written |-> {}, sampled |-> {}])

\* C11: in every frame of update_gltf_animations the (time, weight) table
\* has exactly one pair per referenced clip, the pair of the last
\* controller in query order that references the clip; every binding of
\* every node to that clip is looked up, sampled and blended with that
\* pair; and the controllers that are not the last to reference a clip
\* have no effect on the table.
C11_LastControllerWins ==
    [][update_gltf_animations =>
          /\ last'.eval_data = LastPairs
          /\ EvalData(LastOnly) = last'.eval_data
          /\ \A n \in 1..NumNodes :
                 LET items == NodeAnimations(scene, anim_assets, last'.eval_data, n)
                 IN  \A j \in 1..Len(items) :
                         <<items[j].time, items[j].weight>>
                             = LastPairs[ClipOf(n, items[j].binding)]
          /\ xfm' = FrameOfLastPairs.xfm
          /\ crashed' = FrameOfLastPairs.crashed
          /\ last'.written = FrameOfLastPairs.written
          /\ last'.sampled = FrameOfLastPairs.sampled]_vars

\* A frame has run under two controllers that hold different pairs for a
\* clip: the table holds the pair of the later one, and a node bound to the
\* clip was sampled and written.
C11_Witness ==
    /\ last.ran
    /\ crashed = "none"
    /\ \E h \in DOMAIN last.eval_data :
          /\ \E e \in Referencing(h) :
                 /\ e # LastReferencing(h)
                 /\ PairOf(e, h) # PairOf(LastReferencing(h), h)
                 /\ last.eval_data[h] # PairOf(e, h)
          /\ last.eval_data[h] = PairOf(LastReferencing(h), h)
          /\ \E n \in last.written : \E k \in 1..Len(scene.targets[n]) :
                 /\ ClipOf(n, k) = h
                 /\ <<n, k>> \in last.sampled

====
